---- MODULE Spec2Model ----
(***************************************************************************)
(* On-ledger rights-management protocol of the IP management system:       *)
(* IPRegistry, GDPRCompliance, OwnershipManagement and Licensing           *)
(* contracts, executed as atomic transactions on one totally ordered       *)
(* ledger.  A transaction whose require fails reverts: it writes nothing,  *)
(* so an action is enabled exactly when its <name>Revert operator, which   *)
(* evaluates the requires in source order, yields no revert message.       *)
(* Solidity mappings are modelled as functions whose DOMAIN is the set of  *)
(* keys holding a non-zero value (mappings to bool: the set of keys mapped *)
(* to true); reading any other key yields the zero value.                  *)
(* keccak256(abi.encodePacked(...)) is modelled as the tuple of its        *)
(* arguments (collision-free hash).                                        *)
(***************************************************************************)
EXTENDS Integers, Sequences, FiniteSets, TLC

\* ------------------------------------------------------------------ bounds
MaxTime == 3          \* block.timestamp ranges over 1..MaxTime under SpecLicensing
MaxRegistryTime == 2  \* the same under SpecRegistry
MaxTransferTime == 2  \* the same under SpecOwnership
MaxAssets == 2        \* registered assets under SpecRegistry
MaxTransferAssets == 1  \* registered assets under SpecOwnership
MaxLicensedAssets == 1  \* registered assets under SpecLicensing
MaxTransfers == 2     \* successful requestTransfer calls
MaxLicenses == 2      \* successful createLicense calls
MaxPaid == 2          \* cap on royaltyPaid of one license
MaxSubjectLog == 1    \* direct registerDataSubject calls
MaxSystemTime == 2      \* block.timestamp ranges over 1..MaxSystemTime under SpecSystem
MaxSystemAssets == 1    \* registered assets under SpecSystem
MaxSystemTransfers == 1 \* successful requestTransfer calls under SpecSystem
MaxSystemLicenses == 1  \* successful createLicense calls under SpecSystem
MaxSystemPaid == 1      \* cap on royaltyPaid of one license under SpecSystem

\* ---------------------------------------------------------------- actors
NullAddr == "0x0"                    \* address(0)
Deployer == "D"                      \* deployer of GDPRCompliance
OwnershipManagementAddr == "OM"      \* address of the OwnershipManagement contract
LicensingAddr == "LIC"               \* address of the Licensing contract
Users == {"A", "B"}
Callers == Users \cup {Deployer}     \* externally owned accounts sending transactions
Address == Callers \cup {OwnershipManagementAddr, LicensingAddr, NullAddr}

DATA_CONTROLLER_ROLE == "DATA_CONTROLLER"
DATA_PROCESSOR_ROLE == "DATA_PROCESSOR"

IpfsHashes == {"h1"}
AssetTypes == {"Copyright"}
MetadataHashes == {"m1"}
UnknownId == <<>>                    \* an id no contract ever derives

\* ------------------------------------------------------- revert messages
OK == ""
ErrAlreadyRegistered == "IP asset already registered"
ErrAssetNotFound == "IP asset not found"
ErrNotAuthorized == "Not authorized"
ErrNotDataController == "Caller is not a data controller"
ErrNotOwner == "Not the owner of the asset"
ErrAssetInactive == "Asset is not active"
ErrInvalidRecipient == "Invalid recipient"
ErrTransferNotFound == "Transfer request not found"
ErrNotRecipient == "Not the intended recipient"
ErrNotSender == "Not the sender of the transfer"
ErrFinalized == "Transfer already completed or canceled"
ErrInvalidLicensee == "Invalid licensee address"
ErrStartDate == "Start date must be in the future"
ErrEndDate == "Invalid end date"
ErrLicenseNotFound == "License not found"
ErrAlreadyTerminated == "License already terminated"
ErrLicenseInactive == "License not active"
ErrZeroPayment == "Payment amount must be greater than zero"

VARIABLES
  now,                       \* block.timestamp
  ipAssets,                  \* IPRegistry.ipAssets
  ownerAssets,               \* IPRegistry.ownerAssets
  roles,                     \* GDPRCompliance.roles, as the set of pairs mapped to true
  subjectAssets,             \* GDPRCompliance.subjectAssets
  assetControllers,          \* GDPRCompliance.assetControllers
  logicallyDeleted,          \* GDPRCompliance.logicallyDeleted
  transferRequests,          \* OwnershipManagement.transferRequests
  pendingReceivedTransfers,  \* OwnershipManagement.pendingReceivedTransfers
  licenses,                  \* Licensing.licenses
  licensorLicenses,          \* Licensing.licensorLicenses
  licenseeLicenses,          \* Licensing.licenseeLicenses
  paidSum,                   \* history: sum of accepted payRoyalty amounts per license id
  last                       \* the last committed transaction: function, sender, id, msg.value

registryVars == <<ipAssets, ownerAssets>>
gdprVars == <<roles, subjectAssets, assetControllers, logicallyDeleted>>
ownershipVars == <<transferRequests, pendingReceivedTransfers>>
licensingVars == <<licenses, licensorLicenses, licenseeLicenses, paidSum>>
storage == <<registryVars, gdprVars, ownershipVars, licensingVars>>
vars == <<now, storage, last>>

\* ------------------------------------------------------ mapping helpers
Lookup(m, k, zero) == IF k \in DOMAIN m THEN m[k] ELSE zero
Store(m, k, v) == [x \in DOMAIN m \cup {k} |-> IF x = k THEN v ELSE m[x]]
Erase(m, k) == [x \in DOMAIN m \ {k} |-> m[x]]
Push(m, k, v) == Store(m, k, Append(Lookup(m, k, <<>>), v))
\* A committed transaction with the event records it appended to the ledger's log,
\* each the tuple of the event's name and arguments, in emission order.
Tx(op, sender, id, value, events) == [op |-> op, sender |-> sender, id |-> id, value |-> value, events |-> events]

ZeroAsset == [ipfsHash |-> "", owner |-> NullAddr, registrationDate |-> 0,
              isActive |-> FALSE, assetType |-> "", metadataHash |-> ""]
ZeroTransfer == [assetId |-> UnknownId, from |-> NullAddr, to |-> NullAddr,
                 requestDate |-> 0, completed |-> FALSE, canceled |-> FALSE]
ZeroLicense == [assetId |-> UnknownId, licensor |-> NullAddr, licensee |-> NullAddr,
                startDate |-> 0, endDate |-> 0, licenseType |-> "Exclusive",
                termsHash |-> "", isActive |-> FALSE, royaltyAmount |-> 0,
                royaltyPaid |-> 0]

Asset(id) == Lookup(ipAssets, id, ZeroAsset)
Transfer(id) == Lookup(transferRequests, id, ZeroTransfer)
License(id) == Lookup(licenses, id, ZeroLicense)
Controller(id) == Lookup(assetControllers, id, NullAddr)
SetController(id, controller) ==
  IF controller = NullAddr THEN Erase(assetControllers, id)
  ELSE Store(assetControllers, id, controller)

\* ------------------------------------------------------- GDPRCompliance
hasRole(account, role) == <<account, role>> \in roles
isDataController(account) == hasRole(account, DATA_CONTROLLER_ROLE)
isDataProcessor(account) == hasRole(account, DATA_PROCESSOR_ROLE)

\* Slip: the modifier lets every caller through.
onlyDataController_Open(sender) == OK

onlyDataController(sender) ==
  IF isDataController(sender) THEN OK ELSE ErrNotDataController

updateDataControllerRevert(assetId, sender) ==
  IF sender = Controller(assetId) \/ isDataController(sender) THEN OK ELSE ErrNotAuthorized

performLogicalDeletionRevert(assetId, sender) ==
  IF sender = Controller(assetId) \/ isDataController(sender) THEN OK ELSE ErrNotAuthorized

\* Slip: the asset's controller may revert a deletion as it may request one.
revertLogicalDeletionRevert_Controller(assetId, sender) ==
  IF sender = Controller(assetId) \/ isDataController(sender) THEN OK ELSE ErrNotAuthorized

revertLogicalDeletionRevert(assetId, sender) == onlyDataController(sender)

\* ----------------------------------------------------------- IPRegistry
AssetIdOf(ipfsHash, sender, time) == <<ipfsHash, sender, time>>

\* Slip: the existence check is left out.
registerIPAssetRevert_NoCheck(assetId) == OK

registerIPAssetRevert(assetId) ==
  IF Asset(assetId).registrationDate = 0 THEN OK ELSE ErrAlreadyRegistered

getIPAssetRevert(assetId) ==
  IF Asset(assetId).registrationDate > 0 THEN OK ELSE ErrAssetNotFound

isIPAssetActive(assetId) == Asset(assetId).isActive

deactivateIPAssetRevert(assetId, sender) ==
  IF ~(Asset(assetId).registrationDate > 0) THEN ErrAssetNotFound
  ELSE IF ~(Asset(assetId).owner = sender \/ isDataController(sender)) THEN ErrNotAuthorized
  ELSE OK

\* Slip: reactivation authorised like deactivation.
reactivateIPAssetRevert_Controller(assetId, sender) ==
  IF ~(Asset(assetId).registrationDate > 0) THEN ErrAssetNotFound
  ELSE IF ~(Asset(assetId).owner = sender \/ isDataController(sender)) THEN ErrNotAuthorized
  ELSE OK

reactivateIPAssetRevert(assetId, sender) ==
  IF ~(Asset(assetId).registrationDate > 0) THEN ErrAssetNotFound
  ELSE IF ~(Asset(assetId).owner = sender) THEN ErrNotAuthorized
  ELSE OK

AssetIds == DOMAIN ipAssets

Init ==
  /\ now = 1
  /\ ipAssets = <<>>
  /\ ownerAssets = <<>>
  /\ roles = {<<Deployer, DATA_CONTROLLER_ROLE>>}
  /\ subjectAssets = <<>>
  /\ assetControllers = <<>>
  /\ logicallyDeleted = {}
  /\ transferRequests = <<>>
  /\ pendingReceivedTransfers = <<>>
  /\ licenses = <<>>
  /\ licensorLicenses = <<>>
  /\ licenseeLicenses = <<>>
  /\ paidSum = <<>>
  /\ last = Tx("constructor", Deployer, UnknownId, 0, <<>>)

\* The next block is mined: block.timestamp advances.
Tick ==
  /\ now' = now + 1
  /\ last' = Tx("tick", NullAddr, UnknownId, 0, <<>>)
  /\ UNCHANGED storage

registerIPAsset(sender, ipfsHash, assetType, metadataHash) ==
  LET assetId == AssetIdOf(ipfsHash, sender, now)
      err == registerIPAssetRevert(assetId)
  IN /\ err = OK
     /\ last' = Tx("registerIPAsset", sender, assetId, 0,
                   <<<<"DataSubjectRegistered", sender, assetId>>,
                     <<"IPAssetRegistered", assetId, ipfsHash, sender, assetType>>>>)
     /\ ipAssets' = Store(ipAssets, assetId,
                          [ipfsHash |-> ipfsHash, owner |-> sender,
                           registrationDate |-> now, isActive |-> TRUE,
                           assetType |-> assetType, metadataHash |-> metadataHash])
     /\ ownerAssets' = Push(ownerAssets, sender, assetId)
     \* gdprCompliance.registerDataSubject(msg.sender, assetId)
     /\ subjectAssets' = Push(subjectAssets, sender, assetId)
     /\ assetControllers' = SetController(assetId, sender)
     /\ UNCHANGED <<roles, logicallyDeleted, ownershipVars, licensingVars>>
     /\ UNCHANGED now

\* Slip: deactivation erases the record instead of clearing its flag.
deactivateIPAsset_Delete(sender, assetId) ==
  LET err == deactivateIPAssetRevert(assetId, sender)
  IN /\ err = OK
     /\ last' = Tx("deactivateIPAsset", sender, assetId, 0,
                   <<<<"IPAssetDeactivated", assetId>>>>)
     /\ ipAssets' = Erase(ipAssets, assetId)
     /\ UNCHANGED <<ownerAssets, gdprVars, ownershipVars, licensingVars>>
     /\ UNCHANGED now

deactivateIPAsset(sender, assetId) ==
  LET err == deactivateIPAssetRevert(assetId, sender)
  IN /\ err = OK
     /\ last' = Tx("deactivateIPAsset", sender, assetId, 0,
                   <<<<"IPAssetDeactivated", assetId>>>>)
     /\ ipAssets' = [ipAssets EXCEPT ![assetId].isActive = FALSE]
     /\ UNCHANGED <<ownerAssets, gdprVars, ownershipVars, licensingVars>>
     /\ UNCHANGED now

reactivateIPAsset(sender, assetId) ==
  LET err == reactivateIPAssetRevert(assetId, sender)
  IN /\ err = OK
     /\ last' = Tx("reactivateIPAsset", sender, assetId, 0,
                   <<<<"IPAssetReactivated", assetId>>>>)
     /\ ipAssets' = [ipAssets EXCEPT ![assetId].isActive = TRUE]
     /\ UNCHANGED <<ownerAssets, gdprVars, ownershipVars, licensingVars>>
     /\ UNCHANGED now

\* -------------------------------------------- GDPRCompliance transactions
RECURSIVE SumLen(_)
SumLen(m) ==
  IF DOMAIN m = {} THEN 0
  ELSE LET k == CHOOSE x \in DOMAIN m : TRUE
       IN Len(m[k]) + SumLen([x \in DOMAIN m \ {k} |-> m[x]])

grantRole(sender, account, role) ==
  LET err == onlyDataController(sender)
  IN /\ err = OK
     /\ last' = Tx("grantRole", sender, <<account, role>>, 0, <<>>)
     /\ roles' = roles \cup {<<account, role>>}
     /\ UNCHANGED <<subjectAssets, assetControllers, logicallyDeleted,
                    registryVars, ownershipVars, licensingVars>>
     /\ UNCHANGED now

revokeRole(sender, account, role) ==
  LET err == onlyDataController(sender)
  IN /\ err = OK
     /\ last' = Tx("revokeRole", sender, <<account, role>>, 0, <<>>)
     /\ roles' = roles \ {<<account, role>>}
     /\ UNCHANGED <<subjectAssets, assetControllers, logicallyDeleted,
                    registryVars, ownershipVars, licensingVars>>
     /\ UNCHANGED now

\* A direct call of the public entry point (the registry's own call is part of
\* registerIPAsset).
registerDataSubject(sender, subject, assetId) ==
  /\ last' = Tx("registerDataSubject", sender, assetId, 0,
                   <<<<"DataSubjectRegistered", subject, assetId>>>>)
  /\ subjectAssets' = Push(subjectAssets, subject, assetId)
  /\ assetControllers' = SetController(assetId, subject)
  /\ UNCHANGED <<roles, logicallyDeleted, registryVars, ownershipVars, licensingVars, now>>

updateDataController(sender, assetId, newController) ==
  LET err == updateDataControllerRevert(assetId, sender)
  IN /\ err = OK
     /\ last' = Tx("updateDataController", sender, assetId, 0,
                   <<<<"DataControllerChanged", assetId, Controller(assetId), newController>>>>)
     /\ assetControllers' = SetController(assetId, newController)
     /\ UNCHANGED <<roles, subjectAssets, logicallyDeleted,
                    registryVars, ownershipVars, licensingVars>>
     /\ UNCHANGED now

performLogicalDeletion(sender, assetId) ==
  LET err == performLogicalDeletionRevert(assetId, sender)
  IN /\ err = OK
     /\ last' = Tx("performLogicalDeletion", sender, assetId, 0,
                   <<<<"LogicalDeletionPerformed", assetId>>>>)
     /\ logicallyDeleted' = logicallyDeleted \cup {assetId}
     /\ UNCHANGED <<roles, subjectAssets, assetControllers,
                    registryVars, ownershipVars, licensingVars>>
     /\ UNCHANGED now

revertLogicalDeletion(sender, assetId) ==
  LET err == revertLogicalDeletionRevert(assetId, sender)
  IN /\ err = OK
     /\ last' = Tx("revertLogicalDeletion", sender, assetId, 0,
                   <<<<"LogicalDeletionReverted", assetId>>>>)
     /\ logicallyDeleted' = logicallyDeleted \ {assetId}
     /\ UNCHANGED <<roles, subjectAssets, assetControllers,
                    registryVars, ownershipVars, licensingVars>>
     /\ UNCHANGED now

isLogicallyDeleted(assetId) == assetId \in logicallyDeleted

\* --------------------------------------------------- OwnershipManagement
TransferIdOf(assetId, sender, to, time) == <<assetId, sender, to, time>>

\* Slip: the recipient is not checked.
requestTransferRevert_AnyRecipient(assetId, to, sender) ==
  IF getIPAssetRevert(assetId) # OK THEN getIPAssetRevert(assetId)
  ELSE IF ~(Asset(assetId).owner = sender) THEN ErrNotOwner
  ELSE IF ~Asset(assetId).isActive THEN ErrAssetInactive
  ELSE OK

requestTransferRevert(assetId, to, sender) ==
  IF getIPAssetRevert(assetId) # OK THEN getIPAssetRevert(assetId)
  ELSE IF ~(Asset(assetId).owner = sender) THEN ErrNotOwner
  ELSE IF ~Asset(assetId).isActive THEN ErrAssetInactive
  ELSE IF ~(to # NullAddr /\ to # sender) THEN ErrInvalidRecipient
  ELSE OK

\* Slip: a revert inside gdprCompliance.updateDataController is swallowed.
acceptTransferRevert_NoNested(transferId, sender) ==
  LET request == Transfer(transferId)
  IN IF ~(request.requestDate > 0) THEN ErrTransferNotFound
     ELSE IF ~(request.to = sender) THEN ErrNotRecipient
     ELSE IF ~(~request.completed /\ ~request.canceled) THEN ErrFinalized
     ELSE OK

acceptTransferRevert(transferId, sender) ==
  LET request == Transfer(transferId)
  IN IF ~(request.requestDate > 0) THEN ErrTransferNotFound
     ELSE IF ~(request.to = sender) THEN ErrNotRecipient
     ELSE IF ~(~request.completed /\ ~request.canceled) THEN ErrFinalized
     \* gdprCompliance.updateDataController is entered with msg.sender = this contract
     ELSE updateDataControllerRevert(request.assetId, OwnershipManagementAddr)

\* Slip: the controller stays with the sender of the request.
acceptTransferController_From(request, sender) == request.from

\* The data controller that acceptTransfer hands to updateDataController.
acceptTransferController(request, sender) == sender

\* Slip: a finalized request can be canceled.
cancelTransferRevert_NoFinalCheck(transferId, sender) ==
  LET request == Transfer(transferId)
  IN IF ~(request.requestDate > 0) THEN ErrTransferNotFound
     ELSE IF ~(request.from = sender) THEN ErrNotSender
     ELSE OK

cancelTransferRevert(transferId, sender) ==
  LET request == Transfer(transferId)
  IN IF ~(request.requestDate > 0) THEN ErrTransferNotFound
     ELSE IF ~(request.from = sender) THEN ErrNotSender
     ELSE IF ~(~request.completed /\ ~request.canceled) THEN ErrFinalized
     ELSE OK

TransferIds == DOMAIN transferRequests

requestTransfer(sender, assetId, to) ==
  LET transferId == TransferIdOf(assetId, sender, to, now)
      err == requestTransferRevert(assetId, to, sender)
  IN /\ err = OK
     /\ last' = Tx("requestTransfer", sender, transferId, 0,
                   <<<<"TransferRequested", transferId, assetId, sender, to>>>>)
     /\ transferRequests' = Store(transferRequests, transferId,
                                  [assetId |-> assetId, from |-> sender, to |-> to,
                                   requestDate |-> now, completed |-> FALSE,
                                   canceled |-> FALSE])
     /\ pendingReceivedTransfers' = Push(pendingReceivedTransfers, to, transferId)
     /\ UNCHANGED <<registryVars, gdprVars, licensingVars>>
     /\ UNCHANGED now

acceptTransfer(sender, transferId) ==
  LET err == acceptTransferRevert(transferId, sender)
      request == Transfer(transferId)
  IN /\ err = OK
     /\ last' = Tx("acceptTransfer", sender, transferId, 0,
                   <<<<"DataControllerChanged", request.assetId, Controller(request.assetId),
                       acceptTransferController(request, sender)>>,
                     <<"TransferCompleted", transferId, request.assetId, request.from, request.to>>>>)
     /\ transferRequests' = [transferRequests EXCEPT ![transferId].completed = TRUE]
     \* the registry owner is not written: IPRegistry has no transferOwnership
     /\ assetControllers' = Store(assetControllers, request.assetId,
                                  acceptTransferController(request, sender))
     /\ UNCHANGED <<pendingReceivedTransfers, registryVars, roles, subjectAssets,
                    logicallyDeleted, licensingVars>>
     /\ UNCHANGED now

cancelTransfer(sender, transferId) ==
  LET err == cancelTransferRevert(transferId, sender)
  IN /\ err = OK
     /\ last' = Tx("cancelTransfer", sender, transferId, 0,
                   <<<<"TransferCanceled", transferId>>>>)
     /\ transferRequests' = [transferRequests EXCEPT ![transferId].canceled = TRUE]
     /\ UNCHANGED <<pendingReceivedTransfers, registryVars, gdprVars, licensingVars>>
     /\ UNCHANGED now

RECURSIVE FilterPending(_)
FilterPending(ids) ==
  IF ids = <<>> THEN <<>>
  ELSE LET request == Transfer(Head(ids))
       IN (IF ~request.completed /\ ~request.canceled THEN <<Head(ids)>> ELSE <<>>)
          \o FilterPending(Tail(ids))

\* Slip: the whole list is returned, finalized requests included.
getPendingReceivedTransfers_Unfiltered(sender) ==
  Lookup(pendingReceivedTransfers, sender, <<>>)

getPendingReceivedTransfers(sender) ==
  FilterPending(Lookup(pendingReceivedTransfers, sender, <<>>))

\* ------------------------------------------------------------- Licensing
LicenseIdOf(assetId, sender, licensee, time) == <<assetId, sender, licensee, time>>

\* Slip: an end date equal to the start date is accepted.
createLicenseRevert_EndInclusive(assetId, licensee, startDate, endDate, sender) ==
  IF getIPAssetRevert(assetId) # OK THEN getIPAssetRevert(assetId)
  ELSE IF ~(Asset(assetId).owner = sender) THEN ErrNotOwner
  ELSE IF ~Asset(assetId).isActive THEN ErrAssetInactive
  ELSE IF ~(licensee # NullAddr) THEN ErrInvalidLicensee
  ELSE IF ~(startDate >= now) THEN ErrStartDate
  ELSE IF ~(endDate = 0 \/ endDate >= startDate) THEN ErrEndDate
  ELSE onlyDataController(LicensingAddr)

createLicenseRevert(assetId, licensee, startDate, endDate, sender) ==
  IF getIPAssetRevert(assetId) # OK THEN getIPAssetRevert(assetId)
  ELSE IF ~(Asset(assetId).owner = sender) THEN ErrNotOwner
  ELSE IF ~Asset(assetId).isActive THEN ErrAssetInactive
  ELSE IF ~(licensee # NullAddr) THEN ErrInvalidLicensee
  ELSE IF ~(startDate >= now) THEN ErrStartDate
  ELSE IF ~(endDate = 0 \/ endDate > startDate) THEN ErrEndDate
  \* gdprCompliance.grantRole is entered with msg.sender = this contract
  ELSE onlyDataController(LicensingAddr)

\* Slip: the role goes to the licensor.
createLicenseProcessor_Licensor(sender, licensee) == sender

\* The account that createLicense hands to grantRole as data processor.
createLicenseProcessor(sender, licensee) == licensee

terminateLicenseRevert(licenseId, sender) ==
  LET license == License(licenseId)
  IN IF ~(license.startDate > 0) THEN ErrLicenseNotFound
     ELSE IF ~(license.licensor = sender \/ license.licensee = sender) THEN ErrNotAuthorized
     ELSE IF ~license.isActive THEN ErrAlreadyTerminated
     ELSE OK

payRoyaltyRevert(licenseId, value) ==
  LET license == License(licenseId)
  IN IF ~(license.startDate > 0) THEN ErrLicenseNotFound
     ELSE IF ~license.isActive THEN ErrLicenseInactive
     ELSE IF ~(value > 0) THEN ErrZeroPayment
     ELSE OK

\* Slip: the end date is excluded.
isLicenseValidAt_EndExclusive(licenseId, time) ==
  LET license == License(licenseId)
  IN IF license.startDate = 0 \/ ~license.isActive THEN FALSE
     ELSE IF time < license.startDate THEN FALSE
     ELSE IF license.endDate > 0 /\ time >= license.endDate THEN FALSE
     ELSE TRUE

isLicenseValidAt(licenseId, time) ==
  LET license == License(licenseId)
  IN IF license.startDate = 0 \/ ~license.isActive THEN FALSE
     ELSE IF time < license.startDate THEN FALSE
     ELSE IF license.endDate > 0 /\ time > license.endDate THEN FALSE
     ELSE TRUE

isLicenseValid(licenseId) == isLicenseValidAt(licenseId, now)

LicenseIds == DOMAIN licenses

createLicense(sender, assetId, licensee, startDate, endDate, licenseType, termsHash, royaltyAmount) ==
  LET licenseId == LicenseIdOf(assetId, sender, licensee, now)
      err == createLicenseRevert(assetId, licensee, startDate, endDate, sender)
  IN /\ err = OK
     /\ last' = Tx("createLicense", sender, licenseId, 0,
                   <<<<"LicenseCreated", licenseId, assetId, sender, licensee>>>>)
     /\ licenses' = Store(licenses, licenseId,
                          [assetId |-> assetId, licensor |-> sender,
                           licensee |-> licensee, startDate |-> startDate,
                           endDate |-> endDate, licenseType |-> licenseType,
                           termsHash |-> termsHash, isActive |-> TRUE,
                           royaltyAmount |-> royaltyAmount, royaltyPaid |-> 0])
     /\ licensorLicenses' = Push(licensorLicenses, sender, licenseId)
     /\ licenseeLicenses' = Push(licenseeLicenses, licensee, licenseId)
     /\ roles' = roles \cup {<<createLicenseProcessor(sender, licensee), DATA_PROCESSOR_ROLE>>}
     /\ paidSum' = IF licenseId \in DOMAIN paidSum THEN paidSum
                   ELSE Store(paidSum, licenseId, 0)
     /\ UNCHANGED <<registryVars, subjectAssets, assetControllers, logicallyDeleted,
                    ownershipVars>>
     /\ UNCHANGED now

\* Slip: termination also drops the id from both index lists.
terminateLicense_Prune(sender, licenseId) ==
  LET err == terminateLicenseRevert(licenseId, sender)
      license == License(licenseId)
      Others(ids) == SelectSeq(ids, LAMBDA id : id # licenseId)
  IN /\ err = OK
     /\ last' = Tx("terminateLicense", sender, licenseId, 0,
                   <<<<"LicenseTerminated", licenseId>>>>)
     /\ licenses' = [licenses EXCEPT ![licenseId].isActive = FALSE]
     /\ licensorLicenses' = [licensorLicenses EXCEPT ![license.licensor] = Others(@)]
     /\ licenseeLicenses' = [licenseeLicenses EXCEPT ![license.licensee] = Others(@)]
     /\ UNCHANGED <<paidSum, registryVars, gdprVars, ownershipVars>>
     /\ UNCHANGED now

\* Slip: termination also takes the processor role from the licensee.
terminateLicense_Revoke(sender, licenseId) ==
  LET err == terminateLicenseRevert(licenseId, sender)
  IN /\ err = OK
     /\ last' = Tx("terminateLicense", sender, licenseId, 0,
                   <<<<"LicenseTerminated", licenseId>>>>)
     /\ licenses' = [licenses EXCEPT ![licenseId].isActive = FALSE]
     /\ roles' = roles \ {<<License(licenseId).licensee, DATA_PROCESSOR_ROLE>>}
     /\ UNCHANGED <<licensorLicenses, licenseeLicenses, paidSum, registryVars,
                    subjectAssets, assetControllers, logicallyDeleted, ownershipVars>>
     /\ UNCHANGED now

terminateLicense(sender, licenseId) ==
  LET err == terminateLicenseRevert(licenseId, sender)
  IN /\ err = OK
     /\ last' = Tx("terminateLicense", sender, licenseId, 0,
                   <<<<"LicenseTerminated", licenseId>>>>)
     /\ licenses' = [licenses EXCEPT ![licenseId].isActive = FALSE]
     /\ UNCHANGED <<licensorLicenses, licenseeLicenses, paidSum, registryVars,
                    gdprVars, ownershipVars>>
     /\ UNCHANGED now

\* Balances are not modelled: the ether forwarded to the licensor, an externally
\* owned account, cannot make the call fail.  royaltyPaid stays far below 2^256.
payRoyalty(sender, licenseId, value) ==
  LET err == payRoyaltyRevert(licenseId, value)
  IN /\ err = OK
     /\ last' = Tx("payRoyalty", sender, licenseId, value,
                   <<<<"RoyaltyPaid", licenseId, value>>>>)
     /\ licenses' = [licenses EXCEPT ![licenseId].royaltyPaid = @ + value]
     /\ paidSum' = [paidSum EXCEPT ![licenseId] = @ + value]
     /\ UNCHANGED <<licensorLicenses, licenseeLicenses, registryVars, gdprVars,
                    ownershipVars>>
     /\ UNCHANGED now

\* ------------------------------------------------------ transaction inputs
RoleGrants == {<<OwnershipManagementAddr, DATA_CONTROLLER_ROLE>>,
               <<LicensingAddr, DATA_CONTROLLER_ROLE>>,
               <<Deployer, DATA_CONTROLLER_ROLE>>,
               <<"B", DATA_PROCESSOR_ROLE>>}
Recipients == Users
Licensees == {"B"}
Subjects == {"B"}
Controllers == {"B", NullAddr}
StartDates == {1, 2}
EndDates == {0, 2}
LicenseTypes == {"Exclusive"}
TermsHashes == {"t1"}
RoyaltyAmounts == {100}
Payments == {1}

\* ------------------------------------------------------------------ claims
Pending(request) == ~request.completed /\ ~request.canceled

\* C1: in the state right after a committed acceptTransfer(T), the registry's
\* owner of T.assetId is T.to.
C1_OwnerFollowsAccept ==
  last.op = "acceptTransfer" =>
    Asset(Transfer(last.id).assetId).owner = Transfer(last.id).to

\* C2: in the state right after a committed acceptTransfer(T), the data
\* controller of T.assetId is T.to.
C2_ControllerFollowsAccept ==
  last.op = "acceptTransfer" =>
    Controller(Transfer(last.id).assetId) = Transfer(last.id).to

C2_Witness ==
  /\ last.op = "acceptTransfer"
  /\ Transfer(last.id).completed
  /\ last.sender = Transfer(last.id).to
  /\ Controller(Transfer(last.id).assetId) # Asset(Transfer(last.id).assetId).owner

\* C3: completed and canceled are never both true, and a request that is
\* completed or canceled keeps both flags in every later state.
C3_FinalIsPermanent ==
  /\ [](\A id \in DOMAIN transferRequests :
          ~(transferRequests[id].completed /\ transferRequests[id].canceled))
  /\ [][\A id \in DOMAIN transferRequests :
          ~Pending(transferRequests[id]) =>
            /\ transferRequests'[id].completed = transferRequests[id].completed
            /\ transferRequests'[id].canceled = transferRequests[id].canceled]_vars

\* C4: acceptTransfer / cancelTransfer revert with "not found" on an unknown id,
\* with "not the recipient" / "not the sender" for any caller other than
\* request.to / request.from, and with "already completed or canceled" on a
\* finalized request; a pending request leaves the pending state only through
\* acceptTransfer sent by request.to or cancelTransfer sent by request.from.
C4_Reverts ==
  \A s \in Callers :
    /\ acceptTransferRevert(UnknownId, s) = ErrTransferNotFound
    /\ cancelTransferRevert(UnknownId, s) = ErrTransferNotFound
    /\ \A id \in DOMAIN transferRequests :
         LET request == transferRequests[id]
         IN /\ s # request.to => acceptTransferRevert(id, s) = ErrNotRecipient
            /\ s # request.from => cancelTransferRevert(id, s) = ErrNotSender
            /\ s = request.to /\ ~Pending(request) =>
                 acceptTransferRevert(id, s) = ErrFinalized
            /\ s = request.from /\ ~Pending(request) =>
                 cancelTransferRevert(id, s) = ErrFinalized

C4_FinalizedOnlyByParties ==
  \A id \in DOMAIN transferRequests :
    LET request == transferRequests[id]
    IN Pending(request) /\ ~Pending(transferRequests'[id]) =>
         /\ last'.id = id
         /\ \/ /\ last'.op = "acceptTransfer"
               /\ last'.sender = request.to
               /\ transferRequests'[id] = [request EXCEPT !.completed = TRUE]
            \/ /\ last'.op = "cancelTransfer"
               /\ last'.sender = request.from
               /\ transferRequests'[id] = [request EXCEPT !.canceled = TRUE]

C4_AcceptCancelGuarded == []C4_Reverts /\ [][C4_FinalizedOnlyByParties]_vars

C4_Witness ==
  /\ last.op = "acceptTransfer"
  /\ Transfer(last.id).completed
  /\ cancelTransferRevert(last.id, Transfer(last.id).from) = ErrFinalized

\* C5: a committed registerIPAsset creates an id that no earlier registration
\* created; registering a derived id that exists reverts with "already
\* registered"; every stored record is the one its id was derived from.
C5_RegisterStep ==
  last'.op = "registerIPAsset" =>
    /\ last'.id \notin DOMAIN ipAssets
    /\ \A id \in DOMAIN ipAssets : ipAssets'[id] = ipAssets[id]
    /\ ownerAssets'[last'.sender] = Append(Lookup(ownerAssets, last'.sender, <<>>), last'.id)

C5_Registered ==
  /\ \A s \in Callers, h \in IpfsHashes :
       AssetIdOf(h, s, now) \in DOMAIN ipAssets =>
         registerIPAssetRevert(AssetIdOf(h, s, now)) = ErrAlreadyRegistered
  /\ \A id \in DOMAIN ipAssets :
       id = AssetIdOf(ipAssets[id].ipfsHash, ipAssets[id].owner, ipAssets[id].registrationDate)

C5_UniqueIds == []C5_Registered /\ [][C5_RegisterStep]_vars

C5_Witness ==
  /\ last.op = "registerIPAsset"
  /\ Cardinality(DOMAIN ipAssets) = 2
  /\ last.id = AssetIdOf(Asset(last.id).ipfsHash, last.sender, now)
  /\ registerIPAssetRevert(last.id) = ErrAlreadyRegistered

\* C6: royaltyPaid of a license never decreases and always equals the sum of
\* the amounts of the committed payRoyalty calls on its id.
C6_RoyaltyIsSumOfPayments ==
  /\ [](\A id \in DOMAIN licenses : licenses[id].royaltyPaid = paidSum[id])
  /\ [][\A id \in DOMAIN licenses :
          licenses'[id].royaltyPaid >= licenses[id].royaltyPaid]_vars

\* C7: a license that is not active is not active in the next state either.
C7_TerminatedIsPermanent ==
  [][\A id \in DOMAIN licenses :
       ~licenses[id].isActive => ~licenses'[id].isActive]_vars

\* C8: isLicenseValid(id) is true exactly when the license was created, is
\* active, block.timestamp >= startDate and endDate is 0 or >= block.timestamp.
C8_IsValidExact ==
  \A id \in DOMAIN licenses \cup {UnknownId} :
    isLicenseValid(id) =
      /\ id \in DOMAIN licenses
      /\ licenses[id].isActive
      /\ now >= licenses[id].startDate
      /\ (licenses[id].endDate = 0 \/ now <= licenses[id].endDate)

C8_Witness ==
  \E id \in DOMAIN licenses :
    /\ licenses[id].isActive
    /\ licenses[id].endDate = now
    /\ isLicenseValid(id)

\* C9: right after a committed acceptTransfer of a request from A to B on X,
\* B is the one who passes the owner check of requestTransfer and createLicense
\* on X, and A fails it.
C9_RightsFollowTransfer ==
  last.op = "acceptTransfer" =>
    LET request == Transfer(last.id)
    IN /\ requestTransferRevert(request.assetId, request.from, request.to) # ErrNotOwner
       /\ createLicenseRevert(request.assetId, request.from, now, 0, request.to) # ErrNotOwner
       /\ requestTransferRevert(request.assetId, request.to, request.from) = ErrNotOwner
       /\ createLicenseRevert(request.assetId, request.to, now, 0, request.from) = ErrNotOwner

\* C10: deactivateIPAsset reverts with "not found" on an unknown id and with
\* "not authorized" unless the sender owns the asset or holds the data
\* controller role; reactivateIPAsset likewise, but only the owner passes; the
\* active flag of an asset changes only through these two transactions.
C10_Reverts ==
  \A s \in Callers :
    /\ deactivateIPAssetRevert(UnknownId, s) = ErrAssetNotFound
    /\ reactivateIPAssetRevert(UnknownId, s) = ErrAssetNotFound
    /\ \A id \in DOMAIN ipAssets :
         /\ deactivateIPAssetRevert(id, s) =
              IF ipAssets[id].owner = s \/ isDataController(s) THEN OK ELSE ErrNotAuthorized
         /\ reactivateIPAssetRevert(id, s) =
              IF ipAssets[id].owner = s THEN OK ELSE ErrNotAuthorized

C10_FlagStep ==
  \A id \in DOMAIN ipAssets :
    ipAssets'[id].isActive # ipAssets[id].isActive =>
      /\ last'.id = id
      /\ ipAssets'[id] = [ipAssets[id] EXCEPT !.isActive = ~@]
      /\ IF ipAssets[id].isActive
         THEN /\ last'.op = "deactivateIPAsset"
              /\ last'.sender = ipAssets[id].owner \/ isDataController(last'.sender)
         ELSE /\ last'.op = "reactivateIPAsset"
              /\ last'.sender = ipAssets[id].owner

C10_ActiveFlag == []C10_Reverts /\ [][C10_FlagStep]_vars

C10_Witness ==
  /\ last.op = "deactivateIPAsset"
  /\ last.sender # Asset(last.id).owner
  /\ ~Asset(last.id).isActive
  /\ reactivateIPAssetRevert(last.id, last.sender) = ErrNotAuthorized

\* C11: every registered asset has a controller that is a real actor, never
\* the null address.
C11_ControllerNeverNull ==
  \A id \in DOMAIN ipAssets : Controller(id) \in Address \ {NullAddr}

\* C12: the controller of a registered asset changes only through
\* updateDataController entered by the current controller or by a holder of the
\* data controller role (directly, or by the OwnershipManagement contract
\* inside acceptTransfer); registerDataSubject leaves a set controller alone.
C12_ControllerStep ==
  \A id \in DOMAIN ipAssets :
    Lookup(assetControllers', id, NullAddr) # Controller(id) =>
      \/ /\ last'.op = "updateDataController"
         /\ last'.id = id
         /\ last'.sender = Controller(id) \/ isDataController(last'.sender)
      \/ /\ last'.op = "acceptTransfer"
         /\ Transfer(last'.id).assetId = id
         /\ \/ OwnershipManagementAddr = Controller(id)
            \/ isDataController(OwnershipManagementAddr)

C12_ControllerChangesOnlyByReassign == [][C12_ControllerStep]_vars

\* C13: no direct registerDataSubject call commits: the subject index and the
\* controller pointers change through it only inside registerIPAsset.
C13_RegisterSubjectInternalOnly ==
  [][last'.op = "registerDataSubject" => UNCHANGED <<subjectAssets, assetControllers>>]_vars

\* C14: an asset id occurs at most once in a subject's asset index.
C14_SubjectIndexHasNoDuplicates ==
  \A a \in DOMAIN subjectAssets :
    \A i, j \in 1 .. Len(subjectAssets[a]) :
      subjectAssets[a][i] = subjectAssets[a][j] => i = j

\* C15: the role table changes only through grantRole / revokeRole entered by
\* an account that holds the data controller role when the call is made
\* (directly, or by the Licensing contract inside createLicense); for any other
\* caller the modifier reverts; hasRole is a total boolean view.
C15_Reverts ==
  \A s \in Address :
    /\ \A r \in {DATA_CONTROLLER_ROLE, DATA_PROCESSOR_ROLE} : hasRole(s, r) \in BOOLEAN
    /\ onlyDataController(s) =
         IF <<s, DATA_CONTROLLER_ROLE>> \in roles THEN OK ELSE ErrNotDataController

C15_RoleStep ==
  roles' # roles =>
    \/ /\ last'.op = "grantRole"
       /\ <<last'.sender, DATA_CONTROLLER_ROLE>> \in roles
       /\ roles' = roles \cup {last'.id}
    \/ /\ last'.op = "revokeRole"
       /\ <<last'.sender, DATA_CONTROLLER_ROLE>> \in roles
       /\ roles' = roles \ {last'.id}
    \/ /\ last'.op = "createLicense"
       /\ <<LicensingAddr, DATA_CONTROLLER_ROLE>> \in roles
       /\ roles' = roles \cup {<<last'.id[3], DATA_PROCESSOR_ROLE>>}

C15_RolesGuarded == []C15_Reverts /\ [][C15_RoleStep]_vars

C15_Witness ==
  /\ last.op = "revokeRole"
  /\ last.id = <<last.sender, DATA_CONTROLLER_ROLE>>
  /\ ~isDataController(last.sender)
  /\ onlyDataController(last.sender) = ErrNotDataController

\* C16: the deletion flag of an asset is set only by performLogicalDeletion sent
\* by the asset's controller or a holder of the data controller role, and
\* cleared only by revertLogicalDeletion sent by a holder of that role; a
\* controller without the role cannot revert.
C16_Reverts ==
  \A s \in Callers, id \in DOMAIN ipAssets :
    /\ performLogicalDeletionRevert(id, s) =
         IF s = Controller(id) \/ isDataController(s) THEN OK ELSE ErrNotAuthorized
    /\ revertLogicalDeletionRevert(id, s) = OK <=> isDataController(s)

C16_FlagStep ==
  \A id \in logicallyDeleted \cup logicallyDeleted' :
    /\ id \notin logicallyDeleted =>
         /\ last'.op = "performLogicalDeletion"
         /\ last'.id = id
         /\ last'.sender = Controller(id) \/ isDataController(last'.sender)
         /\ logicallyDeleted' = logicallyDeleted \cup {id}
    /\ id \notin logicallyDeleted' =>
         /\ last'.op = "revertLogicalDeletion"
         /\ last'.id = id
         /\ isDataController(last'.sender)
         /\ logicallyDeleted' = logicallyDeleted \ {id}

C16_DeletionFlagGuarded == []C16_Reverts /\ [][C16_FlagStep]_vars

C16_Witness ==
  /\ last.op = "performLogicalDeletion"
  /\ last.id \in logicallyDeleted
  /\ last.sender = Controller(last.id)
  /\ ~isDataController(last.sender)
  /\ revertLogicalDeletionRevert(last.id, last.sender) = ErrNotDataController

\* C18 as claimed: requestTransfer commits exactly when the sender is the
\* registry owner of the asset, the asset is active and the recipient is neither
\* the null address nor the sender, and every revert is one of "not the owner",
\* "asset not active", "invalid recipient".
C18_RequestAllowed(id, to, s) ==
  /\ id \in DOMAIN ipAssets
  /\ ipAssets[id].owner = s
  /\ ipAssets[id].isActive
  /\ to # NullAddr
  /\ to # s

C18_OnlyThreeReverts ==
  \A s \in Callers, to \in Address, id \in DOMAIN ipAssets \cup {UnknownId} :
    /\ requestTransferRevert(id, to, s) = OK <=> C18_RequestAllowed(id, to, s)
    /\ requestTransferRevert(id, to, s) \in
         {OK, ErrNotOwner, ErrAssetInactive, ErrInvalidRecipient}

\* C18 as amended: the same, where an unregistered asset id reverts with
\* "IP asset not found"; a request record or an index entry is created only by
\* a committed requestTransfer, as a pending request appended to the
\* recipient's list.
C18_Reverts ==
  \A s \in Callers, to \in Address, id \in DOMAIN ipAssets \cup {UnknownId} :
    /\ requestTransferRevert(id, to, s) = OK <=> C18_RequestAllowed(id, to, s)
    /\ requestTransferRevert(id, to, s) \in
         {OK, ErrAssetNotFound, ErrNotOwner, ErrAssetInactive, ErrInvalidRecipient}
    /\ requestTransferRevert(id, to, s) = ErrAssetNotFound <=> id \notin DOMAIN ipAssets
    /\ id \in DOMAIN ipAssets /\ ipAssets[id].owner # s =>
         requestTransferRevert(id, to, s) = ErrNotOwner
    /\ id \in DOMAIN ipAssets /\ ipAssets[id].owner = s /\ ~ipAssets[id].isActive =>
         requestTransferRevert(id, to, s) = ErrAssetInactive

C18_RequestStep ==
  (\/ pendingReceivedTransfers' # pendingReceivedTransfers
   \/ DOMAIN transferRequests' # DOMAIN transferRequests) =>
    /\ last'.op = "requestTransfer"
    /\ last'.id \in DOMAIN transferRequests'
    /\ LET id == last'.id
           request == transferRequests'[id]
       IN /\ request.from = last'.sender
          /\ C18_RequestAllowed(request.assetId, request.to, request.from)
          /\ Pending(request)
          /\ request.requestDate = now
          /\ id = TransferIdOf(request.assetId, request.from, request.to, now)
          /\ \A other \in DOMAIN transferRequests \ {id} :
               transferRequests'[other] = transferRequests[other]
          /\ DOMAIN pendingReceivedTransfers' = DOMAIN pendingReceivedTransfers \cup {request.to}
          /\ pendingReceivedTransfers'[request.to] =
               Append(Lookup(pendingReceivedTransfers, request.to, <<>>), id)
          /\ \A a \in DOMAIN pendingReceivedTransfers \ {request.to} :
               pendingReceivedTransfers'[a] = pendingReceivedTransfers[a]

C18_RequestGuarded == []C18_Reverts /\ [][C18_RequestStep]_vars

C18_Witness ==
  /\ last.op = "requestTransfer"
  /\ Pending(Transfer(last.id))
  /\ LET list == Lookup(pendingReceivedTransfers, Transfer(last.id).to, <<>>)
     IN list # <<>> /\ list[Len(list)] = last.id
  /\ requestTransferRevert(Transfer(last.id).assetId, last.sender, last.sender)
       = ErrInvalidRecipient
  /\ requestTransferRevert(UnknownId, Transfer(last.id).to, last.sender) = ErrAssetNotFound

\* C19: createLicense commits only when the sender is the registry owner of a
\* registered, active asset, the licensee is not the null address, startDate is
\* not before block.timestamp and endDate is 0 or greater than startDate;
\* otherwise it reverts with the message of the first failed require (endDate =
\* startDate included); a grant and its index entries are created only by a
\* committed createLicense; every stored grant has startDate >= its creation
\* time and endDate = 0 or endDate > startDate.
C19_CreateAllowed(id, licensee, startDate, endDate, s) ==
  /\ id \in DOMAIN ipAssets
  /\ ipAssets[id].owner = s
  /\ ipAssets[id].isActive
  /\ licensee # NullAddr
  /\ startDate >= now
  /\ endDate = 0 \/ endDate > startDate

C19_Reverts ==
  \A s \in Callers, l \in {NullAddr, "B"}, id \in DOMAIN ipAssets \cup {UnknownId},
     sd \in 0 .. MaxTime, ed \in 0 .. MaxTime :
    LET err == createLicenseRevert(id, l, sd, ed, s)
    IN /\ err = OK => C19_CreateAllowed(id, l, sd, ed, s)
       /\ ~C19_CreateAllowed(id, l, sd, ed, s) =>
            err \in {ErrAssetNotFound, ErrNotOwner, ErrAssetInactive, ErrInvalidLicensee,
                     ErrStartDate, ErrEndDate}
       /\ err = ErrAssetNotFound <=> id \notin DOMAIN ipAssets
       /\ C19_CreateAllowed(id, l, sd, 0, s) /\ ed = sd => err = ErrEndDate
       /\ C19_CreateAllowed(id, l, now, ed, s) /\ sd < now => err = ErrStartDate

C19_Stored ==
  \A id \in DOMAIN licenses :
    /\ id = LicenseIdOf(licenses[id].assetId, licenses[id].licensor, licenses[id].licensee, id[4])
    /\ licenses[id].startDate >= id[4]
    /\ licenses[id].endDate = 0 \/ licenses[id].endDate > licenses[id].startDate

C19_CreateStep ==
  (\/ DOMAIN licenses' # DOMAIN licenses
   \/ licensorLicenses' # licensorLicenses
   \/ licenseeLicenses' # licenseeLicenses) =>
    /\ last'.op = "createLicense"
    /\ last'.id \in DOMAIN licenses'
    /\ LET id == last'.id
           grant == licenses'[id]
       IN /\ grant.licensor = last'.sender
          /\ C19_CreateAllowed(grant.assetId, grant.licensee, grant.startDate, grant.endDate,
                               grant.licensor)
          /\ grant.isActive
          /\ grant.royaltyPaid = 0
          /\ id = LicenseIdOf(grant.assetId, grant.licensor, grant.licensee, now)
          /\ \A other \in DOMAIN licenses \ {id} : licenses'[other] = licenses[other]
          /\ licensorLicenses'[grant.licensor] =
               Append(Lookup(licensorLicenses, grant.licensor, <<>>), id)
          /\ licenseeLicenses'[grant.licensee] =
               Append(Lookup(licenseeLicenses, grant.licensee, <<>>), id)

C19_CreateGuarded == [](C19_Reverts /\ C19_Stored) /\ [][C19_CreateStep]_vars

C19_Witness ==
  /\ last.op = "createLicense"
  /\ License(last.id).endDate > License(last.id).startDate
  /\ License(last.id).startDate = now
  /\ createLicenseRevert(License(last.id).assetId, License(last.id).licensee,
                         License(last.id).startDate, License(last.id).startDate,
                         last.sender) = ErrEndDate

\* C20: in the state right after a committed createLicense, the licensee of the
\* new grant holds the data processor role.
C20_LicenseeIsProcessor ==
  last.op = "createLicense" => hasRole(License(last.id).licensee, DATA_PROCESSOR_ROLE)

C20_Witness ==
  /\ last.op = "createLicense"
  /\ License(last.id).licensee # last.sender
  /\ isDataProcessor(License(last.id).licensee)
  /\ ~isDataProcessor(last.sender)

\* C21: a transaction commits all of its writes or none, nested calls
\* included.  A request becomes completed only in a step in which the nested
\* updateDataController call is authorized, and that step also moves the
\* controller; a new asset record appears only together with its owner index
\* entry, its data-subject entry and its controller; a license is written only
\* in a step in which the nested grantRole call is authorized, and that step
\* also appends both index entries and grants the processor role.  A request
\* whose nested call would revert is therefore left pending, and the asset
\* record and license tables are left as they were.
C21_Accepted(id) ==
  /\ id \in DOMAIN transferRequests
  /\ ~transferRequests[id].completed
  /\ transferRequests'[id].completed

C21_AllOrNothing ==
  [][ /\ \A id \in DOMAIN transferRequests' :
           C21_Accepted(id) =>
             /\ acceptTransferRevert(id, transferRequests[id].to) = OK
             /\ updateDataControllerRevert(transferRequests[id].assetId,
                                           OwnershipManagementAddr) = OK
             /\ Lookup(assetControllers', transferRequests[id].assetId, NullAddr)
                  = transferRequests[id].to
             /\ UNCHANGED <<registryVars, licensingVars>>
      /\ \A id \in DOMAIN ipAssets' \ DOMAIN ipAssets :
           LET owner == ipAssets'[id].owner
           IN /\ ownerAssets' = Push(ownerAssets, owner, id)
              /\ subjectAssets' = Push(subjectAssets, owner, id)
              /\ Lookup(assetControllers', id, NullAddr) = owner
              /\ UNCHANGED <<ownershipVars, licensingVars>>
      /\ last'.op = "createLicense" =>
           LET license == licenses'[last'.id]
           IN /\ onlyDataController(LicensingAddr) = OK
              /\ createLicenseRevert(license.assetId, license.licensee, license.startDate,
                                     license.endDate, license.licensor) = OK
              /\ licensorLicenses' = Push(licensorLicenses, license.licensor, last'.id)
              /\ licenseeLicenses' = Push(licenseeLicenses, license.licensee, last'.id)
              /\ <<license.licensee, DATA_PROCESSOR_ROLE>> \in roles'
              /\ UNCHANGED <<registryVars, ownershipVars>>
      /\ ~isDataController(LicensingAddr) =>
           UNCHANGED <<licenses, licensorLicenses, licenseeLicenses>>
             \/ last'.op \in {"terminateLicense", "payRoyalty"}
    ]_vars

\* A pending request whose acceptance is rejected inside the nested call, next
\* to an asset that is registered with all of its entries.
C21_Witness ==
  \E id \in DOMAIN transferRequests :
    /\ Pending(Transfer(id))
    /\ acceptTransferRevert(id, Transfer(id).to) = ErrNotAuthorized
    /\ Transfer(id).assetId \in DOMAIN ipAssets
    /\ \E lid \in DOMAIN licenses : License(lid).isActive

\* C22: every committed transaction appends the event record of its operation,
\* carrying the id of the entity it acted on (for a role change: the account
\* and the role).  The ledger's log is append-only and a reverted transaction
\* appends nothing, so the claim is about the records of the committed one.
C22_EventOf ==
  [op \in {"registerIPAsset", "deactivateIPAsset", "reactivateIPAsset",
            "requestTransfer", "acceptTransfer", "cancelTransfer",
            "createLicense", "terminateLicense", "payRoyalty",
            "grantRole", "revokeRole", "updateDataController",
            "performLogicalDeletion", "revertLogicalDeletion"} |->
     CASE op = "registerIPAsset" -> "IPAssetRegistered"
       [] op = "deactivateIPAsset" -> "IPAssetDeactivated"
       [] op = "reactivateIPAsset" -> "IPAssetReactivated"
       [] op = "requestTransfer" -> "TransferRequested"
       [] op = "acceptTransfer" -> "TransferCompleted"
       [] op = "cancelTransfer" -> "TransferCanceled"
       [] op = "createLicense" -> "LicenseCreated"
       [] op = "terminateLicense" -> "LicenseTerminated"
       [] op = "payRoyalty" -> "RoyaltyPaid"
       [] op = "grantRole" -> "RoleGranted"
       [] op = "revokeRole" -> "RoleRevoked"
       [] op = "updateDataController" -> "DataControllerChanged"
       [] op = "performLogicalDeletion" -> "LogicalDeletionPerformed"
       [] op = "revertLogicalDeletion" -> "LogicalDeletionReverted"]

C22_Logged(tx, ops) ==
  tx.op \in ops =>
    \E i \in 1..Len(tx.events) :
      /\ tx.events[i][1] = C22_EventOf[tx.op]
      /\ \/ tx.events[i][2] = tx.id
         \/ Len(tx.events[i]) >= 3 /\ <<tx.events[i][2], tx.events[i][3]>> = tx.id

C22_EveryTxIsLogged == C22_Logged(last, DOMAIN C22_EventOf)

\* C23: for every account, getPendingReceivedTransfers returns the ids of the
\* account's received list whose request is neither completed nor canceled now,
\* in the order of the list: every returned id is a pending request addressed to
\* the account, every pending request addressed to the account is returned, and
\* a request that has been accepted or canceled is not.
C23_PendingForExact ==
  \A a \in Address :
    LET history == Lookup(pendingReceivedTransfers, a, <<>>)
        result == getPendingReceivedTransfers(a)
    IN /\ result = SelectSeq(history, LAMBDA id : Pending(Transfer(id)))
       /\ \A i \in 1..Len(result) :
            /\ result[i] \in TransferIds
            /\ Transfer(result[i]).to = a
            /\ Pending(Transfer(result[i]))
       /\ \A id \in TransferIds :
            Pending(Transfer(id)) /\ Transfer(id).to = a
              => \E i \in 1..Len(result) : result[i] = id
       /\ \A id \in TransferIds :
            ~Pending(Transfer(id)) => \A i \in 1..Len(result) : result[i] # id

\* An account that received two requests, the first finalized since, the second
\* still pending and the only one returned.
C23_Witness ==
  \E a \in Address :
    LET history == Lookup(pendingReceivedTransfers, a, <<>>)
    IN /\ Len(history) = 2
       /\ ~Pending(Transfer(history[1]))
       /\ getPendingReceivedTransfers(a) = <<history[2]>>

\* C24: a registered asset keeps the content hash, the owner, the registration
\* timestamp and the asset type it was created with (those its id was derived
\* from) in every later state, whatever transaction is committed, and its
\* record is never removed; a committed deactivateIPAsset or reactivateIPAsset
\* writes the active flag of its asset and nothing else; isIPAssetActive reads
\* false for every id that was never registered.
C24_PossibleIds ==
  {AssetIdOf(h, s, t) : h \in IpfsHashes, s \in Callers, t \in 1..MaxSystemTime}
    \cup {UnknownId}

C24_Records ==
  /\ \A id \in C24_PossibleIds \ AssetIds : isIPAssetActive(id) = FALSE
  /\ \A id \in AssetIds :
       /\ Asset(id).ipfsHash = id[1]
       /\ Asset(id).owner = id[2]
       /\ Asset(id).registrationDate = id[3]
       /\ Asset(id).assetType \in AssetTypes

C24_Step ==
  /\ \A id \in AssetIds :
       /\ id \in DOMAIN ipAssets'
       /\ ipAssets'[id] = [ipAssets[id] EXCEPT !.isActive = ipAssets'[id].isActive]
  /\ (last'.op \in {"deactivateIPAsset", "reactivateIPAsset"}) =>
       /\ ipAssets' = [ipAssets EXCEPT
                         ![last'.id].isActive = (last'.op = "reactivateIPAsset")]
       /\ UNCHANGED <<ownerAssets, gdprVars, ownershipVars, licensingVars>>

C24_AssetImmutable == []C24_Records /\ [][C24_Step]_vars

\* An asset deactivated after a transfer of it was completed and a license on
\* it was created: its record still names the registering account as owner.
C24_Witness ==
  /\ last.op = "deactivateIPAsset"
  /\ last.id \in AssetIds
  /\ ~isIPAssetActive(last.id)
  /\ Asset(last.id).owner = last.id[2]
  /\ last.sender # Asset(last.id).owner
  /\ \E t \in TransferIds : Transfer(t).assetId = last.id /\ Transfer(t).completed
  /\ \E l \in LicenseIds : License(l).assetId = last.id

\* C25: the licensor and licensee index lists are append-only.  A committed
\* createLicense appends its id to the list of the licensor and to the list of
\* the licensee, no other transaction writes the lists, every list is in
\* creation order, and every license, terminated or expired included, stays
\* in the lists of both of its parties.
C25_Extends(old, new) ==
  /\ Len(new) >= Len(old)
  /\ SubSeq(new, 1, Len(old)) = old

C25_Ordered(ids) ==
  \A i, j \in 1..Len(ids) : i < j => ids[i][4] <= ids[j][4]

C25_Listed(ids, id) == \E i \in 1..Len(ids) : ids[i] = id

C25_Lists ==
  /\ \A a \in Address :
       /\ C25_Ordered(Lookup(licensorLicenses, a, <<>>))
       /\ C25_Ordered(Lookup(licenseeLicenses, a, <<>>))
  /\ \A id \in LicenseIds :
       /\ C25_Listed(Lookup(licensorLicenses, License(id).licensor, <<>>), id)
       /\ C25_Listed(Lookup(licenseeLicenses, License(id).licensee, <<>>), id)

C25_Step ==
  /\ \A a \in Address :
       /\ C25_Extends(Lookup(licensorLicenses, a, <<>>), Lookup(licensorLicenses', a, <<>>))
       /\ C25_Extends(Lookup(licenseeLicenses, a, <<>>), Lookup(licenseeLicenses', a, <<>>))
  /\ IF last'.op = "createLicense"
     THEN /\ licensorLicenses' = Push(licensorLicenses, last'.sender, last'.id)
          /\ licenseeLicenses' = Push(licenseeLicenses, licenses'[last'.id].licensee, last'.id)
     ELSE UNCHANGED <<licensorLicenses, licenseeLicenses>>

C25_IndexAppendOnly == []C25_Lists /\ [][C25_Step]_vars

\* Two licenses created one after the other, the first expired and terminated
\* since, both still listed for the licensor in creation order.
C25_Witness ==
  /\ last.op = "terminateLicense"
  /\ \E a \in Address :
       LET ids == Lookup(licensorLicenses, a, <<>>)
       IN /\ Len(ids) = 2
          /\ ids[1] = last.id
          /\ ids[1][4] < ids[2][4]
          /\ ~License(ids[1]).isActive
          /\ License(ids[1]).endDate > 0 /\ now > License(ids[1]).endDate
          /\ Lookup(licenseeLicenses, License(ids[1]).licensee, <<>>) = ids

\* C26: acceptTransfer sent by the recipient of a request that is still pending
\* commits, whatever role the OwnershipManagement contract holds and whoever
\* controls the asset; sent by anyone on any id it reverts only with
\* "Transfer request not found", "Not the intended recipient" or "Transfer
\* already completed or canceled".
C26_AcceptAlwaysSucceeds ==
  /\ \A id \in TransferIds :
       Pending(Transfer(id)) => acceptTransferRevert(id, Transfer(id).to) = OK
  /\ \A id \in TransferIds \cup {UnknownId}, s \in Callers :
       acceptTransferRevert(id, s) \in {OK, ErrTransferNotFound, ErrNotRecipient, ErrFinalized}

\* C27: createLicense sent by the registry owner of an active asset, with a
\* licensee other than address(0), a start date not before the current block
\* and an end date that is 0 or after the start date, commits, whether or not
\* the Licensing contract holds the data controller role.
C27_CreateAlwaysSucceeds ==
  \A s \in Callers, id \in AssetIds, licensee \in Licensees,
     startDate \in StartDates, endDate \in EndDates :
    C19_CreateAllowed(id, licensee, startDate, endDate, s)
      => createLicenseRevert(id, licensee, startDate, endDate, s) = OK

\* C28: in the state right after a committed acceptTransfer of a request for
\* an asset, every other request for that asset that is still pending (all of
\* them were created before this acceptance) can no longer be accepted by
\* anyone, so at most one of the concurrent requests is ever completed.
C28_StaleRequestsAreDead ==
  last.op = "acceptTransfer" =>
    \A id \in TransferIds \ {last.id} :
      Transfer(id).assetId = Transfer(last.id).assetId /\ Pending(Transfer(id))
        => \A s \in Callers : acceptTransferRevert(id, s) # OK

\* C29: in every reachable state some account holds the data controller role.
C29_SomeDataController ==
  \E a \in Address : isDataController(a)

\* C30: a committed terminateLicense(L) clears the active flag of L, which was
\* set, and writes nothing else: the other fields of L, every other license,
\* both index lists, the role table and all other storage are as before, so a
\* licensee that held the processor role before the termination holds it after.
C30_Step ==
  (last'.op = "terminateLicense") =>
    LET L == last'.id
    IN /\ L \in LicenseIds
       /\ License(L).isActive
       /\ ~licenses'[L].isActive
       /\ licenses' = [licenses EXCEPT ![L].isActive = FALSE]
       /\ \A f \in DOMAIN License(L) \ {"isActive"} : licenses'[L][f] = License(L)[f]
       /\ \A id \in LicenseIds \ {L} : licenses'[id] = licenses[id]
       /\ UNCHANGED <<licensorLicenses, licenseeLicenses>>
       /\ roles' = roles
       /\ (<<License(L).licensee, DATA_PROCESSOR_ROLE>> \in roles')
            = isDataProcessor(License(L).licensee)
       /\ UNCHANGED <<registryVars, subjectAssets, assetControllers, logicallyDeleted,
                      ownershipVars>>

C30_TerminateFrame == [][C30_Step]_vars

\* A license terminated after a royalty was paid on it, beside another license
\* that is still active; the licensee is still a data processor.
C30_Witness ==
  /\ last.op = "terminateLicense"
  /\ ~License(last.id).isActive
  /\ License(last.id).royaltyPaid > 0
  /\ isDataProcessor(License(last.id).licensee)
  /\ \E id \in LicenseIds \ {last.id} : License(id).isActive

\* ------------------------------------------------------- next-state relations
\* The guards written here bound the exploration; they are not in the contracts.
RegistryTx(maxAssets) ==
  \/ \E s \in Callers, h \in IpfsHashes, t \in AssetTypes, m \in MetadataHashes :
       /\ Cardinality(DOMAIN ipAssets) < maxAssets
       /\ registerIPAsset(s, h, t, m)
  \/ \E s \in Callers, id \in AssetIds : deactivateIPAsset(s, id)
  \/ \E s \in Callers, id \in AssetIds : reactivateIPAsset(s, id)

RoleTx ==
  \/ \E s \in Callers, g \in RoleGrants : grantRole(s, g[1], g[2])
  \/ \E s \in Callers, g \in RoleGrants : revokeRole(s, g[1], g[2])

GdprAssetTx ==
  \/ \E s \in Callers, a \in Subjects, id \in AssetIds :
       /\ SumLen(subjectAssets) - Cardinality(DOMAIN ipAssets) < MaxSubjectLog
       /\ registerDataSubject(s, a, id)
  \/ \E s \in Callers, id \in AssetIds, c \in Controllers : updateDataController(s, id, c)
  \/ \E s \in Callers, id \in AssetIds : performLogicalDeletion(s, id)
  \/ \E s \in Callers, id \in AssetIds : revertLogicalDeletion(s, id)

OwnershipTx(maxTransfers) ==
  \/ \E s \in Callers, id \in AssetIds, to \in Recipients :
       /\ SumLen(pendingReceivedTransfers) < maxTransfers
       /\ requestTransfer(s, id, to)
  \/ \E s \in Callers, id \in TransferIds : acceptTransfer(s, id)
  \/ \E s \in Callers, id \in TransferIds : cancelTransfer(s, id)

LicensingTx(maxLicenses, maxPaid) ==
  \/ \E s \in Callers, id \in AssetIds, l \in Licensees, sd \in StartDates,
        ed \in EndDates, lt \in LicenseTypes, th \in TermsHashes, ra \in RoyaltyAmounts :
       /\ SumLen(licensorLicenses) < maxLicenses
       /\ createLicense(s, id, l, sd, ed, lt, th, ra)
  \/ \E s \in Callers, id \in LicenseIds : terminateLicense(s, id)
  \/ \E s \in Callers, id \in LicenseIds, v \in Payments :
       /\ License(id).royaltyPaid + v <= maxPaid
       /\ payRoyalty(s, id, v)

\* Registry and role table.  The other transactions write no registry storage
\* and no role that a registry transaction reads.
NextRegistry ==
  \/ now < MaxRegistryTime /\ Tick
  \/ RegistryTx(MaxAssets)
  \/ RoleTx

\* Data-protection module and ownership transfers.  Licensing transactions
\* write only Licensing storage and processor roles, which no transaction here
\* reads.
NextOwnership ==
  \/ now < MaxTransferTime /\ Tick
  \/ RegistryTx(MaxTransferAssets)
  \/ RoleTx
  \/ GdprAssetTx
  \/ OwnershipTx(MaxTransfers)

\* Licensing.  Controller pointers, deletion flags and transfer requests are
\* read by no Licensing transaction.
NextLicensing ==
  \/ now < MaxTime /\ Tick
  \/ RegistryTx(MaxLicensedAssets)
  \/ RoleTx
  \/ LicensingTx(MaxLicenses, MaxPaid)

\* Registry, role table, ownership transfers and licensing together, at the
\* smallest bounds: every transaction that calls into another contract.
NextSystem ==
  \/ now < MaxSystemTime /\ Tick
  \/ RegistryTx(MaxSystemAssets)
  \/ RoleTx
  \/ OwnershipTx(MaxSystemTransfers)
  \/ LicensingTx(MaxSystemLicenses, MaxSystemPaid)

SpecRegistry == Init /\ [][NextRegistry]_vars
SpecOwnership == Init /\ [][NextOwnership]_vars
SpecLicensing == Init /\ [][NextLicensing]_vars
SpecSystem == Init /\ [][NextSystem]_vars
====
